---- MODULE Spec2Model ----
(***************************************************************************)
(* Photo frame: the configuration web service (webapp/app.py), the photo   *)
(* fetcher (photos.py), the polling loop (display.py) and the entry point  *)
(* (main.py), with the files they share: token.json, client_secret.json    *)
(* and the photos/ directory.                                              *)
(***************************************************************************)
EXTENDS Integers, Sequences, FiniteSets, TLC

\* ------------------------------------------------------------------ bounds
MaxRemote == 2        \* media items in the remote library
MaxN == 2             \* largest n passed to download_latest_photos
MaxLocal == 1         \* files in photos/ when the process starts
MaxCalls == 2         \* the fetcher call counter saturates here
MaxIps == 3           \* addresses `hostname -I` prints

Sessions == {"s1", "s2"}        \* browser sessions talking to the web service
Nonces == {"n1", "n2"}          \* OAuth state values the library hands out
Creds == {"c1", "c2"}           \* credentials the token endpoint issues
OldCred == "c0"                 \* a credential left in token.json by an earlier run

\* ------------------------------------------------------------- file values
\* token.json: no file, a file of zero bytes (opened "w", nothing flushed
\* yet), or one complete serialized credential.  `expired` is the clock
\* having passed the credential's expiry.
NoFile == [kind |-> "absent"]
EmptyFile == [kind |-> "empty"]
Rec(c, e) == [kind |-> "record", cred |-> c, expired |-> e]

\* session.get("state") when the key is missing
NoState == "None"
\* flow.credentials before any exchange; _load_credentials() returning None
NoCred == "None"
Min(a, b) == IF a < b THEN a ELSE b

VARIABLES
  token,          \* contents of token.json
  clientSecret,   \* client_secret.json exists
  session,        \* session["state"] of each browser session
  req,            \* the request each session has in flight or completed last
  webUp,          \* the Flask thread has been started
  everExisted,    \* token.json has existed at some point of the run
  pc,             \* position of the main thread in main() and display_photos_loop
  qr,             \* the QR code is on the panel / in qr.png
  photo,          \* photo_path held by the loop
  shown,          \* image last committed to the panel / debug file
  fetchCalls,     \* calls of get_next_photo made by the loop (saturating)
  dir,            \* photos/ exists
  files,          \* files of photos/, oldest modification time first
  remote,         \* the remote library, newest item first
  call,           \* what the last download_latest_photos call saw and did
  ips,            \* the words `hostname -I` printed, in order
  hostIp,         \* host_ip of main()
  elapsed,        \* seconds of work since the loop last woke, as its sleep starts
  slept           \* seconds the last sleep of the loop lasted

webVars == <<clientSecret, session, req, webUp>>
loopVars == <<pc, qr, photo, shown, fetchCalls>>
photoVars == <<dir, files, remote, call>>
netVars == <<ips, hostIp>>
timeVars == <<elapsed, slept>>
vars == <<token, everExisted, webVars, loopVars, photoVars, netVars, timeVars>>

\* ------------------------------------------------- configuration web service
\* What one request did: the route, the handler's position (the callback is
\* the only handler with more than one step: exchange, open, write), the
\* value session.get("state") returned, the credential the exchange gave,
\* the records it wrote to token.json, and the response.
Request(route, at, state, cred, writes, status, to) ==
  [route |-> route, pc |-> at, state |-> state, cred |-> cred,
   writes |-> writes, status |-> status, to |-> to]
NoRequest == Request("none", "done", NoState, NoCred, 0, 0, "none")

FalsyNever(state) == FALSE
\* `not state`: None and the empty value are both falsy
Falsy(state) == state \in {NoState, ""}

TokenParses(tok) == tok.kind = "record"
\* os.path.exists("token.json")
TokenExists(tok) == tok.kind # "absent"

\* index(): GET /
Index(s) ==
  /\ webUp
  /\ req[s].pc = "done"
  /\ req' = [req EXCEPT ![s] =
       Request("index", "done", NoState, NoCred, 0, 200,
               IF TokenExists(token) THEN "configured" ELSE "not configured")]
  /\ UNCHANGED <<netVars, timeVars, token, everExisted, clientSecret, session, webUp, loopVars, photoVars>>

SecretNeverMissing(secret) == FALSE
\* the guard of google_auth(): client_secret.json must be there
SecretMissing(secret) == ~secret

\* google_auth(): GET /google_auth
GoogleAuth(s) ==
  /\ webUp
  /\ req[s].pc = "done"
  /\ IF SecretMissing(clientSecret)
       THEN /\ req' = [req EXCEPT ![s] =
                 Request("google_auth", "done", NoState, NoCred, 0, 500, "none")]
            /\ UNCHANGED session
       ELSE \E nonce \in Nonces :
            /\ session' = [session EXCEPT ![s] = nonce]
            /\ req' = [req EXCEPT ![s] =
                 Request("google_auth", "done", NoState, NoCred, 0, 302, "consent")]
  /\ UNCHANGED <<netVars, timeVars, token, everExisted, clientSecret, webUp, loopVars, photoVars>>

\* oauth2callback(), up to and including flow.fetch_token: the session check,
\* the flow built from client_secret.json, the token exchange (granted: the
\* credential the token endpoint answered with, NoCred when it refused or
\* the library raised).
CallbackExchange(s) ==
  /\ webUp
  /\ req[s].pc = "done"
  /\ LET state == session[s] IN
     IF Falsy(state)
       THEN req' = [req EXCEPT ![s] =
              Request("oauth2callback", "done", state, NoCred, 0, 400, "none")]
       ELSE \E granted \in Creds \cup {NoCred} :
            IF clientSecret /\ granted # NoCred
              THEN req' = [req EXCEPT ![s] =
                     Request("oauth2callback", "open", state, granted, 0, 0, "none")]
              ELSE req' = [req EXCEPT ![s] =
                     Request("oauth2callback", "done", state, NoCred, 0, 500, "none")]
  /\ UNCHANGED <<netVars, timeVars, token, everExisted, clientSecret, session, webUp, loopVars, photoVars>>

\* open("token.json", "w"): creates the file or truncates it to zero bytes
OpenForWrite(tok) == EmptyFile

WriteNothing(tok, cred) == tok
\* token_file.write(creds.to_json()) and the close that flushes it
WriteRecord(tok, cred) == Rec(cred, FALSE)

\* oauth2callback(): `with open("token.json", "w") as token_file`
\* (opened: the open did not fail with an I/O error)
CallbackOpen(s) ==
  /\ req[s].pc = "open"
  /\ \E opened \in BOOLEAN :
     IF opened
       THEN /\ token' = OpenForWrite(token)
            /\ everExisted' = TRUE
            /\ req' = [req EXCEPT ![s].pc = "write"]
       ELSE /\ req' = [req EXCEPT ![s].pc = "done", ![s].status = 500]
            /\ UNCHANGED <<netVars, timeVars, token, everExisted>>
  /\ UNCHANGED <<netVars, timeVars, clientSecret, session, webUp, loopVars, photoVars>>

CallbackWriteClearsQr(s) ==
  /\ req[s].pc = "write"
  /\ token' = WriteRecord(token, req[s].cred)
  /\ req' = [req EXCEPT ![s].pc = "done", ![s].writes = 1,
                        ![s].status = 302, ![s].to = "index"]
  /\ qr' = FALSE
  /\ UNCHANGED <<netVars, timeVars, everExisted, clientSecret, session, webUp,
                 pc, photo, shown, fetchCalls, photoVars>>
\* oauth2callback(): the write, the close, and redirect(url_for("index"))
\* (written: the write and flush did not fail with an I/O error)
CallbackWrite(s) ==
  /\ req[s].pc = "write"
  /\ \E written \in BOOLEAN :
     IF written
       THEN /\ token' = WriteRecord(token, req[s].cred)
            /\ req' = [req EXCEPT ![s].pc = "done", ![s].writes = 1,
                                  ![s].status = 302, ![s].to = "index"]
       ELSE /\ req' = [req EXCEPT ![s].pc = "done", ![s].status = 500]
            /\ UNCHANGED token
  /\ UNCHANGED <<netVars, timeVars, everExisted, clientSecret, session, webUp, loopVars, photoVars>>

\* ------------------------------------------------------------- environment
\* the operator uploads client_secret.json to the project root
UploadClientSecret ==
  /\ ~clientSecret
  /\ clientSecret' = TRUE
  /\ UNCHANGED <<netVars, timeVars, token, everExisted, session, req, webUp, loopVars, photoVars>>

\* the clock passes the expiry of the stored credential
Expire ==
  /\ token.kind = "record" /\ ~token.expired
  /\ token' = [token EXCEPT !.expired = TRUE]
  /\ UNCHANGED <<netVars, timeVars, everExisted, webVars, loopVars, photoVars>>

\* ------------------------------------------------------------ photo fetcher
\* A file name is a stem and a suffix; a local file also has a content
\* ("old": it was in photos/ before the process started).
Name(stem, ext) == [stem |-> stem, ext |-> ext]
NoName == Name("", "")                       \* item.get("filename") is None
File(name, content) == [name |-> name, content |-> content]
Names(fs) == {fs[i].name : i \in 1..Len(fs)}
Range(q) == {q[i] : i \in 1..Len(q)}

\* str.lower() on the suffixes that occur
Lower(ext) ==
  CASE ext = ".JPG" -> ".jpg"
    [] ext = ".PNG" -> ".png"
    [] OTHER -> ext

\* A media item of the remote library
Item(name, mime, baseUrl, content) ==
  [filename |-> name, mimeType |-> mime, baseUrl |-> baseUrl, content |-> content]
Catalogue ==
  { Item(Name("a", ".jpg"), "image/jpeg", TRUE, "v1"),
    Item(Name("a", ".jpg"), "image/jpeg", TRUE, "v2"),   \* same name, changed content
    Item(Name("b", ".PNG"), "image/png", TRUE, "v1"),
    Item(Name("v", ".mp4"), "video/mp4", TRUE, "v1"),
    Item(NoName, "image/jpeg", FALSE, "v1") }            \* no baseUrl, no filename

\* mime.startswith("image/")
IsImage(mime) == mime \in {"image/jpeg", "image/png"}

\* str(DOWNLOAD_DIR / filename)
PathOf(name) == <<"photos", name.stem, name.ext>>

\* the outcomes of requests.get(url): status 200, another status, or an
\* exception raised by the transport
Outcomes == {"200", "404", "raise"}
\* the outcomes of build() and of mediaItems().list().execute()
ApiOutcomes == {"ok", "build fails", "list fails"}

LoadUnchecked(tok) ==
  CASE tok.kind = "absent" -> [raised |-> FALSE, creds |-> "None"]
    [] tok.kind = "empty" -> [raised |-> TRUE, creds |-> "None"]
    [] OTHER -> [raised |-> FALSE, creds |-> tok.cred]
\* _load_credentials(): None without a file or with an expired credential;
\* a file that does not parse makes from_authorized_user_file raise
LoadCredentials(tok) ==
  CASE tok.kind = "absent" -> [raised |-> FALSE, creds |-> NoCred]
    [] tok.kind = "empty" -> [raised |-> TRUE, creds |-> NoCred]
    [] OTHER -> [raised |-> FALSE,
                 creds |-> IF tok.expired THEN NoCred ELSE tok.cred]

GetServiceRefreshing(tok, api) ==
  [raised |-> tok.kind = "empty",
   service |-> tok.kind = "record" /\ api # "build fails"]
\* get_service(): None when unauthorised or when build() fails
GetService(tok, api) ==
  LET l == LoadCredentials(tok) IN
  [raised |-> l.raised,
   service |-> ~l.raised /\ l.creds # NoCred /\ api # "build fails"]

\* service.mediaItems().list(pageSize=n).execute(): at most n items, newest first
ListItems(lib, n) == SubSeq(lib, 1, Min(n, Len(lib)))

SkippedAnyMime(item) == ~item.baseUrl \/ item.filename = [stem |-> "", ext |-> ""]
\* the test that makes the loop over the items `continue`
Skipped(item) ==
  \/ ~item.baseUrl
  \/ item.filename = NoName
  \/ ~IsImage(item.mimeType)

CachedNever(fs, item) == FALSE
\* file_path.exists()
Cached(fs, item) == item.filename \in Names(fs)

\* what `r.status_code == 200` lets through to the write
Stored(outcome) == outcome = "200"

\* The body of `for item in items`, from item i on.  acc carries the local
\* files, the paths collected, the requests sent over the network with
\* their outcomes, and whether an exception left the loop.
RECURSIVE ProcessItems(_, _, _, _)
ProcessItems(items, i, out, acc) ==
  IF i > Len(items) THEN acc
  ELSE LET item == items[i] IN
    IF Skipped(item) THEN ProcessItems(items, i + 1, out, acc)
    ELSE IF Cached(acc.files, item)
      THEN ProcessItems(items, i + 1, out,
             [acc EXCEPT !.paths = Append(@, PathOf(item.filename))])
    ELSE LET asked == [acc EXCEPT !.requests =
                         Append(@, [name |-> item.filename, outcome |-> out[i]])] IN
      IF out[i] = "raise" THEN [asked EXCEPT !.aborted = TRUE]
      ELSE IF Stored(out[i])
        THEN ProcessItems(items, i + 1, out,
               [asked EXCEPT !.files = Append(@, File(item.filename, item.content)),
                             !.paths = Append(@, PathOf(item.filename))])
      ELSE ProcessItems(items, i + 1, out, asked)

\* What a call saw and did: the token.json it read (its kind and, of a
\* record, whether it had expired), whether the load returned a credential,
\* whether it raised, whether the remote list was asked for, the items it got,
\* the names in photos/ before it, the paths returned, the requests sent.
CallRecord(n, saw, loaded, raised, queried, items, before, paths, requests, aborted) ==
  [made |-> TRUE, n |-> n, saw |-> saw, loaded |-> loaded, raised |-> raised,
   queried |-> queried,
   items |-> items, before |-> before, paths |-> paths, requests |-> requests,
   aborted |-> aborted]
NoCall ==
  [made |-> FALSE, n |-> 0, saw |-> [kind |-> "none"], loaded |-> FALSE,
   raised |-> FALSE, queried |-> FALSE,
   items |-> <<>>, before |-> {}, paths |-> <<>>, requests |-> <<>>,
   aborted |-> FALSE]

\* what a reader of token.json can tell of it without the credential itself
Seen(tok) ==
  IF tok.kind = "record" THEN [kind |-> "record", expired |-> tok.expired]
  ELSE [kind |-> tok.kind]

\* download_latest_photos(n).  api: the outcome of build() and of the list
\* request; out[i]: the outcome of the download of item i.
DownloadLatestPhotos(n, tok, d, fs, lib, api, out) ==
  LET svc == GetService(tok, api)
      load == LoadCredentials(tok)
      items == IF api = "list fails" THEN <<>> ELSE ListItems(lib, n)
      start == [files |-> fs, paths |-> <<>>, requests |-> <<>>, aborted |-> FALSE]
      done == ProcessItems(items, 1, out, start)
  IN IF svc.raised \/ ~svc.service
       THEN [dir |-> d, files |-> fs,
             call |-> CallRecord(n, Seen(tok), load.creds # NoCred, svc.raised, FALSE, <<>>, Names(fs),
                                 <<>>, <<>>, FALSE)]
       ELSE [dir |-> TRUE, files |-> done.files,
             call |-> CallRecord(n, Seen(tok), load.creds # NoCred, FALSE, TRUE, items, Names(fs),
                                 done.paths, done.requests,
                                 done.aborted \/ api = "list fails")]

\* the outcomes the downloads of one call can have: one per item listed
DownloadOutcomes(api, items) ==
  IF api = "ok" THEN [1..Len(items) -> Outcomes] ELSE {<<>>}

\* the recognised suffixes of get_next_photo()
ImageSuffixes == {".jpg", ".jpeg", ".png"}
NoPhoto == <<>>                               \* get_next_photo() returned None

\* max(image_files, key=mtime) over the files with a recognised suffix
RECURSIVE Latest(_, _)
Latest(fs, i) ==
  IF i = 0 THEN NoPhoto
  ELSE IF Lower(fs[i].name.ext) \in ImageSuffixes THEN PathOf(fs[i].name)
  ELSE Latest(fs, i - 1)

\* get_next_photo(): download_latest_photos(1), then the newest image of
\* photos/.  An exception out of _load_credentials, or out of
\* DOWNLOAD_DIR.iterdir() when photos/ does not exist, leaves the function.
GetNextPhotoResult(tok, d, fs, lib, api, out) ==
  LET r == DownloadLatestPhotos(1, tok, d, fs, lib, api, out) IN
  [download |-> r,
   raised |-> r.call.raised \/ ~r.dir,
   photo |-> Latest(r.files, Len(r.files))]

\* the remote libraries and the local directories a run can start from
RECURSIVE SeqsUpTo(_, _)
SeqsUpTo(S, k) ==
  IF k = 0 THEN {<<>>}
  ELSE LET shorter == SeqsUpTo(S, k - 1) IN
       shorter \cup {Append(q, x) : q \in shorter, x \in S}
\* the remote library lists a media item once
RemoteLists ==
  {lib \in SeqsUpTo(Catalogue, MaxRemote) : Cardinality(Range(lib)) = Len(lib)}
LocalFiles ==
  { File(Name("a", ".jpg"), "old"), File(Name("n", ".txt"), "old") }
InitFiles ==
  {fs \in SeqsUpTo(LocalFiles, MaxLocal) : Cardinality(Names(fs)) = Len(fs)}

\* ------------------------------------------------------------- main thread
\* An address is the sequence of its characters.
Loopback == <<"1", "2", "7", ".", "0", ".", "0", ".", "1">>      \* "127.0.0.1"
LoopbackPrefix == <<"1", "2", "7", ".">>                          \* "127."
Addresses ==
  { Loopback,
    <<"1", "2", "7", ".", "0", ".", "1", ".", "1">>,               \* 127.0.1.1
    <<"1", "2", ".", "7", ".", "0", ".", "1">>,                    \* 12.7.0.1
    <<"1", "9", "2", ".", "1", "6", "8", ".", "1", ".", "5">>,     \* 192.168.1.5
    <<"f", "d", "0", "0", ":", ":", "1">> }                        \* fd00::1
NoIp == <<>>                             \* host_ip before it is assigned

\* str.startswith
StartsWith(str, prefix) ==
  /\ Len(str) >= Len(prefix)
  /\ SubSeq(str, 1, Len(prefix)) = prefix

IsLoopbackExact(ip) == ip = <<"1", "2", "7", ".", "0", ".", "0", ".", "1">>
\* ip.startswith("127.")
IsLoopback(ip) == StartsWith(ip, LoopbackPrefix)

\* get_ip_address(): `for ip in ips`, from candidate i on
RECURSIVE GetIpAddress(_, _)
GetIpAddress(candidates, i) ==
  IF i > Len(candidates) THEN Loopback
  ELSE IF ~IsLoopback(candidates[i]) THEN candidates[i]
  ELSE GetIpAddress(candidates, i + 1)

\* the outputs of `hostname -I`, stripped and split
CandidateLists == SeqsUpTo(Addresses, MaxIps)
\* the address list of the spec's example
HomeNetwork == <<Loopback, <<"1", "9", "2", ".", "1", "6", "8", ".", "1", ".", "5">> >>

\* main(): host_ip = get_ip_address()
ResolveHostIp ==
  /\ pc = "ip"
  /\ hostIp' = GetIpAddress(ips, 1)
  /\ pc' = "qr"
  /\ UNCHANGED <<ips, timeVars, token, everExisted, webVars, qr, photo, shown, fetchCalls, photoVars>>

\* main(): show_qr_code inside try/except (rendered: it did not raise)
ShowQr ==
  /\ pc = "qr"
  /\ \E rendered \in BOOLEAN : qr' = rendered
  /\ pc' = "start_web"
  /\ UNCHANGED <<netVars, timeVars, token, everExisted, webVars, photo, shown, fetchCalls, photoVars>>

StartWebInline ==
  /\ pc = "start_web"
  /\ webUp' = TRUE
  /\ pc' = "serving"
  /\ UNCHANGED <<netVars, timeVars, token, everExisted, clientSecret, session, req,
                 qr, photo, shown, fetchCalls, photoVars>>
\* main(): flask_thread.start()
StartWeb ==
  /\ pc = "start_web"
  /\ webUp' = TRUE
  /\ pc' = "wait"
  /\ UNCHANGED <<netVars, timeVars, token, everExisted, clientSecret, session, req,
                 qr, photo, shown, fetchCalls, photoVars>>

MustWaitNever(tok) == FALSE
\* the condition of the wait loop: `not os.path.exists("token.json")`
MustWait(tok) == ~TokenExists(tok)

\* display_photos_loop(): `while not os.path.exists("token.json")`
WaitCheck ==
  /\ pc = "wait"
  /\ pc' = IF MustWait(token) THEN "wait_sleep" ELSE "fetch"
  /\ UNCHANGED <<netVars, timeVars, token, everExisted, webVars, qr, photo, shown, fetchCalls, photoVars>>

WaitSleepOnce ==
  /\ pc = "wait_sleep"
  /\ pc' = "fetch"
  /\ UNCHANGED <<netVars, timeVars, token, everExisted, webVars, qr, photo, shown, fetchCalls, photoVars>>
\* display_photos_loop(): time.sleep(5)
WaitSleep ==
  /\ pc = "wait_sleep"
  /\ pc' = "wait"
  /\ UNCHANGED <<netVars, timeVars, token, everExisted, webVars, qr, photo, shown, fetchCalls, photoVars>>

\* display_photos_loop(): photo_path = get_next_photo(); nothing in the
\* loop catches what get_next_photo raises
GetNextPhoto ==
  /\ pc = "fetch"
  /\ \E api \in ApiOutcomes :
     \E out \in DownloadOutcomes(api, ListItems(remote, 1)) :
     \E g \in {GetNextPhotoResult(token, dir, files, remote, api, out)} :
     /\ call' = g.download.call
     /\ dir' = g.download.dir
     /\ files' = g.download.files
     /\ pc' = IF g.raised THEN "crashed" ELSE "display"
     /\ photo' = IF g.raised THEN photo ELSE g.photo
  /\ fetchCalls' = Min(fetchCalls + 1, MaxCalls)
  /\ UNCHANGED <<netVars, timeVars, token, everExisted, webVars, qr, shown, remote>>

\* interval_seconds, the default the loop of main() runs with
Interval == 3600
\* seconds from the start of an iteration to the end of its display: a
\* panel refresh takes about 30, and an iteration can outlast the interval
WorkTimes == {30, 4000}

\* display_photos_loop(): the if/else around display_image (displayed: no
\* exception from Image.open or display_image)
Display ==
  /\ pc = "display"
  /\ \E displayed \in BOOLEAN :
     shown' = IF photo # NoPhoto /\ displayed THEN photo ELSE shown
  /\ pc' = "sleep"
  /\ \E work \in WorkTimes : elapsed' = work
  /\ UNCHANGED <<netVars, slept, token, everExisted, webVars, qr, photo, fetchCalls, photoVars>>

SleepRest(interval, work) == IF work < interval THEN interval - work ELSE 0
\* the argument of time.sleep(interval_seconds): the interval, whatever the
\* work of the iteration took
SleepTime(interval, work) == interval

\* display_photos_loop(): time.sleep(interval_seconds)
Sleep ==
  /\ pc = "sleep"
  /\ slept' = SleepTime(Interval, elapsed)
  /\ elapsed' = 0
  /\ pc' = "fetch"
  /\ UNCHANGED <<netVars, token, everExisted, webVars, qr, photo, shown, fetchCalls, photoVars>>

\* ----------------------------------------------------------- specification
\* The process starts with whatever an earlier run left on disk.
Init ==
  /\ token \in {NoFile, Rec(OldCred, FALSE), Rec(OldCred, TRUE)}
  /\ everExisted = TokenExists(token)
  /\ clientSecret \in BOOLEAN
  /\ session = [s \in Sessions |-> NoState]
  /\ req = [s \in Sessions |-> NoRequest]
  /\ webUp = FALSE
  /\ pc = "ip"
  /\ qr = FALSE
  /\ photo = NoPhoto
  /\ shown = NoPhoto
  /\ fetchCalls = 0
  /\ dir \in BOOLEAN
  /\ files \in InitFiles
  /\ ~dir => files = <<>>
  /\ remote \in RemoteLists
  /\ call = NoCall
  /\ ips \in CandidateLists
  /\ hostIp = NoIp
  /\ elapsed = 0
  /\ slept = 0

\* the requests of one browser session
Browser(s) ==
  \/ Index(s)
  \/ GoogleAuth(s)
  \/ CallbackExchange(s)
  \/ CallbackOpen(s)
  \/ CallbackWrite(s)

\* the main thread
Main ==
  \/ ResolveHostIp
  \/ ShowQr
  \/ StartWeb
  \/ WaitCheck
  \/ WaitSleep
  \/ GetNextPhoto
  \/ Display
  \/ Sleep

\* The whole program: every browser session, the main thread, the operator
\* and the clock.
Next ==
  \/ \E s \in Sessions : Browser(s)
  \/ Main
  \/ UploadClientSecret
  \/ Expire

Spec == Init /\ [][Next]_vars

\* The web service under every interleaving of the requests of all browser
\* sessions, with the main thread started and left in its wait for
\* token.json: the behaviours of Spec in which the main thread is not
\* scheduled past the wait.
NextWeb ==
  \/ \E s \in Sessions : Index(s)
  \/ \E s \in Sessions : GoogleAuth(s)
  \/ \E s \in Sessions : CallbackExchange(s)
  \/ \E s \in Sessions : CallbackOpen(s)
  \/ \E s \in Sessions : CallbackWrite(s)
  \/ UploadClientSecret
  \/ Expire
  \/ ResolveHostIp
  \/ ShowQr
  \/ StartWeb
  \/ WaitCheck
  \/ WaitSleep

InitWeb == Init /\ dir /\ files = <<>> /\ remote = <<>> /\ ips = HomeNetwork

SpecWeb == InitWeb /\ [][NextWeb]_vars

\* The main thread against the web service driven by one browser session:
\* the behaviours of Spec in which only session s1 sends requests and
\* client_secret.json is in place from the start.  The loop asks the remote
\* library for one item, so libraries of at most one item are all it can
\* tell apart.
NextLoop ==
  \/ Index("s1")
  \/ GoogleAuth("s1")
  \/ CallbackExchange("s1")
  \/ CallbackOpen("s1")
  \/ CallbackWrite("s1")
  \/ Expire
  \/ ResolveHostIp
  \/ ShowQr
  \/ StartWeb
  \/ WaitCheck
  \/ WaitSleep
  \/ GetNextPhoto
  \/ Display
  \/ Sleep

InitLoop == Init /\ clientSecret /\ Len(remote) <= 1 /\ ips = HomeNetwork

SpecLoop == InitLoop /\ [][NextLoop]_vars

\* The polling thread keeps being scheduled: whatever step of main() and of
\* display_photos_loop it is at is eventually taken.
FairLoop == WF_vars(Main)
\* The wait does not look at photos/ or at the remote library: the
\* behaviours of SpecLoop that start from an empty photos/ directory and an
\* empty library, with the polling thread scheduled fairly.
InitWait == InitLoop /\ dir /\ files = <<>> /\ remote = <<>>
SpecWait == InitWait /\ [][NextLoop]_vars /\ FairLoop

\* The start of main() for every output of `hostname -I`, up to the start of
\* the web service, with nothing left on disk by an earlier run.
NextStart ==
  \/ ResolveHostIp
  \/ ShowQr
  \/ StartWeb

InitStart ==
  /\ Init /\ token = NoFile /\ ~clientSecret
  /\ dir /\ files = <<>> /\ remote = <<>>

SpecStart == InitStart /\ [][NextStart]_vars

\* ------------------------------------------------- the fetcher on its own
\* get_next_photo() left by an exception returns nothing at all
Unreturned == <<"exception">>

\* a direct call of download_latest_photos(n)
CallDownload ==
  /\ \E n \in 1..MaxN, api \in ApiOutcomes :
     \E out \in DownloadOutcomes(api, ListItems(remote, n)) :
     \E r \in {DownloadLatestPhotos(n, token, dir, files, remote, api, out)} :
     /\ call' = r.call
     /\ dir' = r.dir
     /\ files' = r.files
  /\ UNCHANGED <<netVars, timeVars, token, everExisted, webVars, loopVars, remote>>

\* a direct call of get_next_photo()
CallGetNext ==
  /\ \E api \in ApiOutcomes :
     \E out \in DownloadOutcomes(api, ListItems(remote, 1)) :
     \E g \in {GetNextPhotoResult(token, dir, files, remote, api, out)} :
     /\ call' = g.download.call
     /\ dir' = g.download.dir
     /\ files' = g.download.files
     /\ photo' = IF g.raised THEN Unreturned ELSE g.photo
  /\ UNCHANGED <<netVars, timeVars, token, everExisted, webVars, pc, qr, shown, fetchCalls, remote>>

\* The fetcher is called with any token.json the web service can leave,
\* any photos/ directory and any remote library.
InitFetch ==
  /\ token \in {NoFile, EmptyFile, Rec(OldCred, FALSE), Rec(OldCred, TRUE)}
  /\ everExisted = TokenExists(token)
  /\ clientSecret = TRUE
  /\ session = [s \in Sessions |-> NoState]
  /\ req = [s \in Sessions |-> NoRequest]
  /\ webUp = FALSE
  /\ pc = "qr"
  /\ qr = FALSE
  /\ photo = NoPhoto
  /\ shown = NoPhoto
  /\ fetchCalls = 0
  /\ dir \in BOOLEAN
  /\ files \in InitFiles
  /\ ~dir => files = <<>>
  /\ remote \in RemoteLists
  /\ call = NoCall
  /\ ips = HomeNetwork
  /\ hostIp = NoIp
  /\ elapsed = 0
  /\ slept = 0

NextFetch ==
  \/ CallDownload
  \/ CallGetNext
  \/ Expire

SpecFetch == InitFetch /\ [][NextFetch]_vars

\* ------------------------------------------------------------------ claims
\* C1: while token.json has never existed, the loop has made no call of the
\* photo fetcher: the call counter is zero and no download call was made.
C1_NoFetchBeforeRecord ==
  ~everExisted => fetchCalls = 0 /\ ~call.made /\ pc # "fetch"
\* the loop has checked, found no record and gone to sleep, with the web
\* service up and a handshake begun
C1_Witness ==
  /\ ~everExisted /\ pc = "wait_sleep" /\ webUp
  /\ req["s1"].route = "google_auth" /\ req["s1"].status = 302

\* C2: a callback request in a session that holds no state nonce is answered
\* 400, makes no token exchange and leaves token.json as it was.
C2_CallbackWithoutNonce ==
  [][\A s \in Sessions :
       (CallbackExchange(s) /\ session[s] \in {NoState, ""}) =>
         /\ req'[s].status = 400
         /\ req'[s].pc = "done"
         /\ req'[s].cred = NoCred
         /\ req'[s].writes = 0
         /\ token' = token]_vars
C2_Witness ==
  \E s \in Sessions :
    /\ req[s].route = "oauth2callback" /\ req[s].status = 400
    /\ req[s].state = NoState

C4_ReaderNeverSeesEmpty ==
  call.saw.kind # "empty"

\* C5: no outcome of an iteration ends the loop: the main thread is never
\* left by an exception.
C5_LoopNeverEnds ==
  pc # "crashed"

\* the names a call stored in photos/
StoredBy(c) ==
  {c.requests[j].name : j \in {k \in 1..Len(c.requests) : c.requests[k].outcome = "200"}}
\* no request of the last call was for a name that was in photos/ when it
\* was sent
NoRefetchInCall ==
  \A j \in 1..Len(call.requests) :
    /\ call.requests[j].name \notin call.before
    /\ \A i \in 1..(j - 1) :
         call.requests[i].name = call.requests[j].name =>
           call.requests[i].outcome # "200"
\* f is strictly increasing on 1..k
Increasing(f, k) == \A i, j \in 1..k : i < j => f[i] < f[j]

\* C6: a download request is never sent for a filename that is in photos/;
\* a call that gets the item list of the call before it sends no request
\* for a filename that call stored.
C6_NoRefetch ==
  /\ []NoRefetchInCall
  /\ [][(call' # call /\ call.queried /\ call'.queried /\ call'.items = call.items) =>
          \A j \in 1..Len(call'.requests) :
            call'.requests[j].name \notin StoredBy(call) \cup Names(files)]_vars
\* the last call found an image item in photos/ that an earlier call had
\* downloaded with another content than the remote one has now, and sent no
\* request for it
C6_Witness ==
  /\ call.queried
  /\ \E i \in 1..Len(call.items), k \in 1..Len(files) :
       /\ ~Skipped(call.items[i])
       /\ files[k].name = call.items[i].filename
       /\ files[k].content \in {"v1", "v2"}
       /\ files[k].content # call.items[i].content
       /\ files[k].name \in call.before
       /\ \A j \in 1..Len(call.requests) : call.requests[j].name # files[k].name

\* C7: download_latest_photos(n) returns at most n paths, in the order of
\* the items, each the path of a file of photos/ and each that of an image
\* item that was in photos/ before or was downloaded with status 200.
C7_ResultOfDownload ==
  call.made =>
    /\ Len(call.paths) <= call.n
    /\ \A j \in 1..Len(call.paths) :
         \E k \in 1..Len(files) : PathOf(files[k].name) = call.paths[j]
    /\ call.paths # <<>> => dir
    /\ \E f \in [1..Len(call.paths) -> 1..Len(call.items)] :
         /\ Increasing(f, Len(call.paths))
         /\ \A j \in 1..Len(call.paths) :
              LET item == call.items[f[j]] IN
              /\ call.paths[j] = PathOf(item.filename)
              /\ item.baseUrl /\ item.filename # NoName
              /\ IsImage(item.mimeType)
              /\ \/ item.filename \in call.before
                 \/ item.filename \in StoredBy(call)
\* a call with n = 2 that returned two paths, one of a file that was in
\* photos/ and one of a file it downloaded
C7_Witness ==
  /\ call.made /\ Len(call.paths) = 2 /\ call.n = 2
  /\ Len(call.requests) = 1 /\ call.before # {}
  /\ call.paths[1] # call.paths[2]

\* C8: a failed download, by status or by a transport error, skips that
\* item only: every item of the batch that is an image with a URL and a
\* name is in the result or had its download attempted.
C8_FailureSkipsOneItem ==
  \A i \in 1..Len(call.items) :
    ~Skipped(call.items[i]) =>
      \/ PathOf(call.items[i].filename) \in Range(call.paths)
      \/ \E j \in 1..Len(call.requests) :
           call.requests[j].name = call.items[i].filename

\* C9: with token.json absent, or present with a credential the validity
\* check rejects, the load returns nothing and download_latest_photos
\* returns the empty list, raises nothing, asks the remote service nothing
\* and downloads nothing.
C9_Unauthorised ==
  (call.made /\ (call.saw.kind = "absent" \/
                 (call.saw.kind = "record" /\ call.saw.expired))) =>
    /\ ~call.loaded
    /\ ~call.raised
    /\ ~call.queried
    /\ call.paths = <<>>
    /\ call.requests = <<>>
C9_Witness ==
  /\ call.made /\ call.saw.kind = "record" /\ call.saw.expired
  /\ call.n = 2 /\ Len(remote) = 2 /\ call.paths = <<>>

\* C10: a begin-authorization request made while client_secret.json is
\* missing is answered 500, stores no nonce in the session, does not
\* redirect to the consent page and leaves token.json as it was.
C10_BeginWithoutSecret ==
  [][\A s \in Sessions :
       (GoogleAuth(s) /\ ~clientSecret) =>
         /\ req'[s].status = 500
         /\ req'[s].to # "consent"
         /\ session' = session
         /\ session'[s] = NoState
         /\ token' = token]_vars
C10_Witness ==
  \E s \in Sessions :
    /\ req[s].route = "google_auth" /\ req[s].status = 500
    /\ ~clientSecret /\ session[s] = NoState

\* C11: once token.json exists the loop, if it keeps being scheduled, leaves
\* the wait and calls the photo fetcher; no sleep of the wait starts while
\* token.json exists, so at most the sleep under way when the file appeared
\* is completed before the call; and while token.json does not exist the
\* loop stays in the wait: it goes on to the fetch only after a check that
\* found the file.
C11_WaitLiveness ==
  /\ (TokenExists(token) /\ pc \in {"wait", "wait_sleep"}) ~> (fetchCalls > 0)
  /\ [][(pc' = "wait_sleep" /\ pc # "wait_sleep") => ~TokenExists(token)]_vars
  /\ [][(pc \in {"wait", "wait_sleep"} /\ pc' # pc) =>
          /\ pc' \in {"wait", "wait_sleep", "fetch"}
          /\ pc' = "fetch" => (pc = "wait" /\ TokenExists(token))]_vars
  /\ [][TokenExists(token) => TokenExists(token')]_vars
\* the record was written by a callback while the loop was in a sleep of the
\* wait
C11_Witness ==
  /\ pc = "wait_sleep" /\ token.kind = "record" /\ token.cred \in Creds
  /\ req["s1"].route = "oauth2callback" /\ req["s1"].status = 302

\* the candidate begins with the characters 1, 2, 7 and a dot
BeginsWithLoopbackPrefix(ip) ==
  /\ Len(ip) >= Len(LoopbackPrefix)
  /\ \A k \in 1..Len(LoopbackPrefix) : ip[k] = LoopbackPrefix[k]
\* the positions of the candidates that do not
NonLoopbackAt(candidates) ==
  {i \in 1..Len(candidates) : ~BeginsWithLoopbackPrefix(candidates[i])}

C13_NonceConsumed ==
  \A s \in Sessions :
    (req[s].route = "oauth2callback" /\ req[s].pc = "done" /\ req[s].status = 302) =>
      session[s] \in {NoState, ""}

\* C14, as claimed: the status page served to a session that has begun no
\* handshake (it holds no nonce: Unauthorized, its initial state) says
\* "not configured".
C14_StatusPerSession ==
  \A s \in Sessions :
    (req[s].route = "index" /\ session[s] = NoState) => req[s].to = "not configured"
\* a session has completed its handshake: its last request is a callback
\* that stored the credential and redirected
Authorized(s) ==
  req[s].route = "oauth2callback" /\ req[s].pc = "done" /\ req[s].status = 302

\* C14, amended: the status page follows token.json, not the session: a
\* request is shown "configured" exactly when token.json exists as it is
\* served, whichever session or earlier run wrote it; so once the handshake
\* of any session has reached Authorized every session is shown
\* "configured", and while token.json has never existed every session is
\* shown "not configured".
C14_StatusFollowsFile ==
  [][\A s \in Sessions : Index(s) =>
       /\ req'[s].status = 200
       /\ req'[s].to \in {"configured", "not configured"}
       /\ req'[s].to = "configured" <=> token.kind # "absent"
       /\ (\E t \in Sessions : Authorized(t)) => req'[s].to = "configured"
       /\ ~everExisted => req'[s].to = "not configured"]_vars
\* a session that never began a handshake is shown "configured" after the
\* other session completed its own
C14_Witness ==
  \E s, t \in Sessions :
    /\ req[s].route = "index" /\ req[s].to = "configured" /\ session[s] = NoState
    /\ Authorized(t) /\ token = Rec(req[t].cred, FALSE) /\ req[t].cred \in Creds

\* C15: the loop is a fixed-delay schedule.  The display comes only after
\* the fetch of its iteration and shows only a photo the fetch returned, the
\* sleep only after the display, the next fetch only after the sleep (the
\* first one after the wait); the fetcher is called and the panel changed
\* at no other position; every sleep lasts the whole interval whatever the
\* work before it took, so between two consecutive fetches there is one
\* sleep of the whole interval.
C15_FixedDelay ==
  [][/\ (pc' = "display" /\ pc # pc') => pc = "fetch"
     /\ (pc' = "sleep" /\ pc # pc') => pc = "display"
     /\ (pc' = "fetch" /\ pc # pc') => pc \in {"sleep", "wait"}
     /\ (pc = "display" /\ pc # pc') => pc' = "sleep"
     /\ (pc = "sleep" /\ pc # pc') => (pc' = "fetch" /\ slept' = Interval)
     /\ (fetchCalls' # fetchCalls \/ call' # call \/ files' # files) => pc = "fetch"
     /\ shown' # shown => (pc = "display" /\ photo # NoPhoto /\ shown' = photo)
     /\ (pc = "fetch" /\ pc # pc' /\ fetchCalls > 0) => slept = Interval
     /\ slept' # slept => pc = "sleep"]_vars
\* the second iteration has displayed a photo, took longer than the
\* interval, and starts its sleep; the first one slept the whole interval
C15_Witness ==
  /\ pc = "sleep" /\ elapsed > Interval /\ slept = Interval
  /\ fetchCalls = 2 /\ photo # NoPhoto /\ shown = photo

\* a callback whose token exchange succeeded and whose save of token.json
\* failed with an I/O error
FailedSave(s) ==
  /\ req[s].route = "oauth2callback" /\ req[s].pc = "done"
  /\ req[s].cred \in Creds /\ req[s].writes = 0

\* C16: a callback whose save failed ends as a failed request, not as a
\* redirect to the status page, and once no save is under way the system
\* looks authorized (token.json exists, which is what the status page and
\* the wait of the loop test) only if a credential record is stored.
C16_FailedSaveNotAuthorized ==
  \A s \in Sessions : FailedSave(s) =>
    /\ req[s].status = 500 /\ req[s].to # "index"
    /\ (\A t \in Sessions : req[t].pc # "write") =>
         (TokenExists(token) => token.kind = "record")

\* the positions of main() before display_photos_loop is entered
Starting == {"ip", "qr", "start_web"}

\* C17: startup is ordered: the QR code is rendered (or fails to) only at
\* the first step after the address is known, before the web service is up;
\* whether it rendered or not the next step starts the web service; that
\* step enters the polling loop with the web service running; and a start
\* whose QR render failed does get to the running web service and the loop.
C17_StartupOrder ==
  /\ [](pc \in Starting <=> ~webUp)
  /\ [][qr' # qr => (pc = "qr" /\ ~webUp)]_vars
  /\ [][(pc = "qr" /\ pc' # pc) => pc' = "start_web"]_vars
  /\ [][(pc = "start_web" /\ pc' # pc) => (pc' = "wait" /\ webUp')]_vars
  /\ [][(pc' \notin Starting /\ pc \in Starting) => pc = "start_web"]_vars
  /\ [][webUp => webUp']_vars
  /\ (pc = "start_web" /\ ~qr) ~> (webUp /\ pc = "wait")
  /\ (pc = "ip") ~> (webUp /\ pc = "wait")
\* the loop is waiting with the web service up, which has served a request,
\* after a QR render that failed
C17_Witness ==
  /\ pc = "wait_sleep" /\ webUp /\ ~qr
  /\ req["s1"].route = "index" /\ req["s1"].status = 200

\* the positions in photos/ of the files with a recognised image suffix
ImagesAt(fs) == {k \in 1..Len(fs) : Lower(fs[k].name.ext) \in ImageSuffixes}

\* C18: a call of get_next_photo makes one fetch with n = 1 and then
\* returns the most recently modified file of photos/ with a recognised
\* image suffix; it returns nothing exactly when there is no such file.
C18_NextPhoto ==
  [][CallGetNext =>
       /\ call'.made /\ call'.n = 1
       /\ ImagesAt(files') = {} <=> photo' = NoPhoto
       /\ ImagesAt(files') # {} =>
            \E k \in ImagesAt(files') :
              /\ photo' = PathOf(files'[k].name)
              /\ \A j \in ImagesAt(files') : j <= k]_vars

\* C19: a step of a request handler (the steps that change a request
\* record) writes nothing but token.json and the session nonce: it leaves
\* photos/, the remote library, the record of the fetcher's calls, the
\* panel (QR code and photo) and the loop's own state as they were; the
\* nonce is written by the begin-authorization handler only and token.json
\* by the callback handler only.
C19_WebWritesOnlyCredential ==
  [][req' # req =>
       /\ UNCHANGED <<dir, files, remote, call>>
       /\ UNCHANGED <<qr, shown, photo, fetchCalls, pc, elapsed, slept>>
       /\ UNCHANGED <<clientSecret, webUp, hostIp>>
       /\ \A s \in Sessions :
            /\ session'[s] # session[s] =>
                 (req'[s].route = "google_auth" /\ req'[s] # req[s])
            /\ (token' # token /\ req'[s] # req[s]) =>
                 req'[s].route = "oauth2callback"]_vars
\* a callback has stored a credential after the loop had downloaded a
\* photo and shown it
C19_Witness ==
  /\ req["s1"].route = "oauth2callback" /\ req["s1"].status = 302
  /\ token = Rec(req["s1"].cred, FALSE)
  /\ call.made /\ Len(call.requests) = 1 /\ shown # NoPhoto /\ qr

\* the positions of display_photos_loop after its wait
Polling == {"fetch", "display", "sleep", "crashed"}
\* the load rejects the stored record: its credential has expired
Rejected(tok) == tok.kind = "record" /\ tok.expired

\* C20: no step of the main thread changes token.json; once past the wait
\* the loop never goes back to it; an iteration that finds the stored
\* credential expired loads nothing, asks the remote service nothing,
\* downloads nothing and leaves photos/ as it was, so the photo it gets, if
\* any, is a file that was already there; and an expired record stays as it
\* is until a step of the callback handler replaces it.
C20_NoRefresh ==
  /\ [][pc' # pc => (token' = token /\ everExisted' = everExisted)]_vars
  /\ [][(pc \in Polling) => (pc' \in Polling)]_vars
  /\ [][(GetNextPhoto /\ Rejected(token)) =>
          /\ ~call'.loaded /\ ~call'.queried /\ call'.requests = <<>>
          /\ files' = files
          /\ pc' = "display" =>
               (photo' = NoPhoto \/ \E k \in 1..Len(files) : photo' = PathOf(files[k].name))]_vars
  /\ [][(Rejected(token) /\ token' # token) =>
          \E s \in Sessions :
            /\ req[s].route = "oauth2callback" /\ req[s].pc \in {"open", "write"}
            /\ req'[s] # req[s]]_vars
\* the second iteration found the credential expired, asked nothing of the
\* remote service and the panel shows a photo downloaded before
C20_Witness ==
  /\ fetchCalls = 2 /\ Rejected(token) /\ call.saw = Seen(token)
  /\ ~call.queried /\ pc = "sleep"
  /\ shown # NoPhoto /\ shown = photo
  /\ \E k \in 1..Len(files) : files[k].content # "old" /\ PathOf(files[k].name) = shown

====
